---- MODULE Spec2Model ----
(***************************************************************************)
(* Model of the LangGraph agent service (src/src/langgraph_agent).         *)
(*                                                                         *)
(* The state is the module-level `agent` of main.py, the phase of the      *)
(* lifespan context manager, the checkpoints the MemorySaver keeps per     *)
(* thread_id, and one record per POST /chat request.  A text is a record   *)
(* [id, len]: an identity and its length in characters, so that the length *)
(* bounds of ChatRequest and string concatenation can be computed.         *)
(***************************************************************************)
EXTENDS Integers, Sequences, FiniteSets, TLC

\* ------------------------------------------------------------------ bounds
MaxRequests == 2
MaxInputs == 2

\* ------------------------------------------------- constants of config.py
INPUT_MAX_LENGTH == 4000
INPUT_MIN_LENGTH == 1
SESSION_ID_MAX_LENGTH == 100
SESSION_ID_MIN_LENGTH == 1

DEFAULT_SESSION_ID == [id |-> "default", len |-> 7]
SYSTEM_PROMPT == [id |-> "SYSTEM_PROMPT", len |-> 95]

\* the two fixed texts of _call_model
CANNOT_ANSWER == [id |-> "cannot_answer", len |-> 15]
ERROR_PREFIX == [id |-> "error_prefix", len |-> 11]

\* ------------------------------------------------------------------ texts
NoText == [id |-> "-", len |-> 0]

\* f"{a}{b}": the identity of the result names both parts in order
Concat(a, b) == [id |-> a.id \o "+" \o b.id, len |-> a.len + b.len]

\* a field the request body does not carry
Absent == [id |-> "absent", len |-> 0]

\* message texts a client may send (lengths around both bounds)
MessageText(n) == [id |-> "m", len |-> n]
MessageTexts == { MessageText(n) : n \in {0, 1, 4000, 4001} }

\* session ids a client may send (lengths around both bounds, and the
\* default's own name)
SessionText(n) == [id |-> "s", len |-> n]
SessionTexts ==
  { SessionText(n) : n \in {0, 1, 100, 101} } \cup {DEFAULT_SESSION_ID}

\* request bodies: the valid ones over two messages and four sessions, and
\* one body for each way of failing a constraint
Body(m, s) == [msg |-> m, sid |-> s]
Bodies ==
  { Body(MessageText(1), SessionText(1)),
    Body(MessageText(4000), SessionText(1)),
    Body(MessageText(1), Absent),
    Body(MessageText(1), DEFAULT_SESSION_ID),
    Body(MessageText(4000), SessionText(100)),
    Body(MessageText(0), SessionText(1)),
    Body(MessageText(4001), SessionText(1)),
    Body(Absent, SessionText(1)),
    Body(MessageText(1), SessionText(0)),
    Body(MessageText(1), SessionText(101)) }

NoBody == Body(Absent, Absent)

\* what llm.invoke can do: return a response with content, return a response
\* with empty content, return no response, or raise an exception with a text
\* (str(e) of an exception raised without arguments is the empty string)
ExceptionTexts == { [id |-> "e1", len |-> 9], [id |-> "e0", len |-> 0] }
ReplyTexts == { [id |-> "r1", len |-> 5] }
\* exceptions the compiled graph can raise outside the node
GraphErrorTexts == { [id |-> "g1", len |-> 11] }

ModelOutcomes ==
  { [kind |-> "ok", text |-> r] : r \in ReplyTexts }
  \cup { [kind |-> "empty", text |-> NoText], [kind |-> "none", text |-> NoText] }
  \cup { [kind |-> "raise", text |-> e] : e \in ExceptionTexts }

NoOutcome == [kind |-> "-", text |-> NoText]

\* values of the GEMINI_API_KEY environment variable
EnvKeyValues == {"unset", "empty", "set"}

VARIABLES envKey, phase, startupError, agent, store, req, health, fmt, cfg

vars == <<envKey, phase, startupError, agent, store, req, health, fmt, cfg>>

Slots == 1..MaxRequests

\* every thread_id the checkpointer can be asked for
AllThreads == SessionTexts

\* ------------------------------------------------------------- config.py
\* os.getenv(ENV_GEMINI_API_KEY): None when the variable is unset
getenv(env) == IF env = "unset" THEN "None" ELSE env

\* truth value of an Optional[str]
Truthy(k) == k = "set"

\* __post_init__ without the check of the key
PostInitNeverRaises(apiKeyArg, env) == FALSE

\* AgentConfig.__post_init__ raises ValueError: only a None argument makes it
\* look at the environment
PostInitRaises(apiKeyArg, env) ==
  /\ apiKeyArg = "None"
  /\ ~Truthy(getenv(env))

\* AgentConfig.from_env passes api_key=os.getenv(...) to the constructor
FromEnvRaises(env) == PostInitRaises(getenv(env), env)

\* get_agent_config() is AgentConfig.from_env()
GetAgentConfigRaises(env) == FromEnvRaises(env)

\* the api_key of the configuration from_env builds
FromEnvApiKey(env) == getenv(env)

\* --------------------------------------------------------------- agent.py
\* messages as the graph state stores them: {"role": ..., "content": ...}
UserMessage(text) == [role |-> "user", content |-> text]
AssistantMessage(text) == [role |-> "assistant", content |-> text]

\* LangChain messages: SystemMessage, HumanMessage, AIMessage
SystemMessage(text) == [type |-> "system", content |-> text]
HumanMessage(text) == [type |-> "human", content |-> text]
AIMessage(text) == [type |-> "ai", content |-> text]

\* format_message without the branch for the system role
format_message_no_system_role(msg) ==
  IF msg.role = "user" THEN HumanMessage(msg.content)
  ELSE IF msg.role = "assistant" THEN AIMessage(msg.content)
  ELSE HumanMessage(msg.content)

\* MessageFormatter.format_message on a dict with role and content
format_message(msg) ==
  IF msg.role = "user" THEN HumanMessage(msg.content)
  ELSE IF msg.role = "assistant" THEN AIMessage(msg.content)
  ELSE IF msg.role = "system" THEN SystemMessage(msg.content)
  ELSE HumanMessage(msg.content)

\* format_messages without the leading system message
format_messages_no_system(messages, system_prompt) ==
  [k \in 1..Len(messages) |-> format_message(messages[k])]

\* MessageFormatter.format_messages: the system prompt, then every message
format_messages(messages, system_prompt) ==
  <<SystemMessage(system_prompt)>>
    \o [k \in 1..Len(messages) |-> format_message(messages[k])]

\* a reducer that overwrites instead of adding
ApplyUpdateOverwrite(saved, update) == update

\* a reducer that puts the update in front
ApplyUpdatePrepend(saved, update) == update \o saved

\* the operator.add reducer of AgentState.messages
ApplyUpdate(saved, update) == saved \o update

\* _call_model answering a failure with the bare str(e)
call_model_bare_exception(outcome) ==
  IF outcome.kind = "raise"
    THEN <<AssistantMessage(outcome.text)>>
  ELSE IF outcome.kind = "none" \/ outcome.text.len = 0
    THEN <<AssistantMessage(CANNOT_ANSWER)>>
  ELSE <<AssistantMessage(outcome.text)>>

\* _call_model without the check for an empty response
call_model_no_empty_check(outcome) ==
  IF outcome.kind = "raise"
    THEN <<AssistantMessage(Concat(ERROR_PREFIX, outcome.text))>>
  ELSE <<AssistantMessage(outcome.text)>>

\* the state update _call_model returns for an outcome of llm.invoke
call_model(outcome) ==
  IF outcome.kind = "raise"
    THEN <<AssistantMessage(Concat(ERROR_PREFIX, outcome.text))>>
  ELSE IF outcome.kind = "none" \/ outcome.text.len = 0
    THEN <<AssistantMessage(CANNOT_ANSWER)>>
  ELSE <<AssistantMessage(outcome.text)>>

\* ---------------------------------------------------------------- main.py
\* ChatRequest with max_length taken as an exclusive bound
ValidBodyExclusiveMax(b) ==
  /\ b.msg # Absent
  /\ b.msg.len >= INPUT_MIN_LENGTH
  /\ b.msg.len < INPUT_MAX_LENGTH
  /\ b.sid # Absent => /\ b.sid.len >= SESSION_ID_MIN_LENGTH
                       /\ b.sid.len < SESSION_ID_MAX_LENGTH

\* ChatRequest: the Field constraints pydantic enforces
ValidBody(b) ==
  /\ b.msg # Absent
  /\ b.msg.len >= INPUT_MIN_LENGTH
  /\ b.msg.len <= INPUT_MAX_LENGTH
  /\ b.sid # Absent => /\ b.sid.len >= SESSION_ID_MIN_LENGTH
                       /\ b.sid.len <= SESSION_ID_MAX_LENGTH

\* a session_id field whose default is the empty name
SessionOfEmptyDefault(b) == IF b.sid # Absent THEN b.sid ELSE SessionText(0)

\* a chat that runs every request on one thread
SessionOfShared(b) == DEFAULT_SESSION_ID

\* request.session_id after the Field default
SessionOf(b) == IF b.sid # Absent THEN b.sid ELSE DEFAULT_SESSION_ID

\* chat without the check of the agent
AgentReadyUnchecked(a) == TRUE

\* `if not agent` in chat
AgentReady(a) == a

\* no GET /health answered yet
NoHealth == [code |-> 0, status |-> "-", agent_ready |-> FALSE, at |-> "-"]

\* no call of the MessageFormatter under way
NoFmt ==
  [xs |-> <<>>, op |-> "none",
   one |-> [raised |-> TRUE, msg |-> [type |-> "-", content |-> NoText]],
   two |-> [raised |-> TRUE, msg |-> [type |-> "-", content |-> NoText]],
   all |-> <<>>]

\* create_agent's config argument left out (None)
NoConfig == [model |-> "None", api_key |-> "None"]

\* no agent returned
NoAgent == [config |-> NoConfig]

\* create_agent not called yet
NoCreated ==
  [raised |-> FALSE, error |-> "-", agent |-> NoAgent, get_agent_config |-> 0]

\* no call of create_agent or of an AgentConfig constructor under way
NoCfg ==
  [arg |-> NoConfig, llm |-> "ok", called |-> FALSE, created |-> NoCreated,
   direct |-> "-", fromEnv |-> "-"]

IdleRequest ==
  [pc |-> "idle", body |-> NoBody, thread |-> NoText, hist0 |-> <<>>,
   state |-> <<>>, prompt |-> <<>>, calls |-> 0, outcome |-> NoOutcome,
   status |-> 0, response |-> NoText, session_id |-> NoText,
   detail |-> NoText,
   overlapped |-> FALSE, during |-> {}]

Init ==
  /\ envKey \in EnvKeyValues
  /\ phase = "init"
  /\ startupError = "none"
  /\ agent = FALSE
  /\ store = [t \in AllThreads |-> <<>>]
  /\ req = [i \in Slots |-> IdleRequest]
  /\ health = NoHealth
  /\ fmt = NoFmt
  /\ cfg = NoCfg

\* lifespan, startup half: create_agent() succeeds
StartupOk ==
  /\ phase = "init"
  /\ ~GetAgentConfigRaises(envKey)
  /\ phase' = "started"
  /\ agent' = TRUE
  /\ UNCHANGED <<envKey, startupError, store, req>>
  /\ UNCHANGED <<health, fmt, cfg>>

\* lifespan, startup half: create_agent() raises and lifespan re-raises.
\* The ValueError is AgentConfig's; with an empty key the configuration is
\* built and the model client's constructor decides.
StartupFail ==
  /\ phase = "init"
  /\ \E err \in {"ValueError", "ClientError"} :
       /\ \/ err = "ValueError" /\ GetAgentConfigRaises(envKey)
          \/ /\ err = "ClientError"
             /\ ~GetAgentConfigRaises(envKey)
             /\ ~Truthy(FromEnvApiKey(envKey))
       /\ startupError' = err
  /\ phase' = "failed"
  /\ UNCHANGED <<envKey, agent, store, req>>
  /\ UNCHANGED <<health, fmt, cfg>>

\* lifespan, shutdown half: agent = None
Shutdown ==
  /\ phase = "started"
  /\ phase' = "stopped"
  /\ agent' = FALSE
  /\ UNCHANGED <<envKey, startupError, store, req>>
  /\ UNCHANGED <<health, fmt, cfg>>

\* requests are numbered in the order they are handled
NextSlot(i) ==
  /\ req[i].pc = "idle"
  /\ i > 1 => req[i - 1].pc # "idle"

\* a chat that records the user message before the body is validated
ChatRejectAfterAppend(i, b) ==
  /\ NextSlot(i)
  /\ ~ValidBody(b)
  /\ req' = [req EXCEPT ![i] = [@ EXCEPT !.pc = "done", !.body = b,
                                         !.status = 422]]
  /\ store' = [store EXCEPT ![SessionOf(b)] =
                 ApplyUpdate(@, <<UserMessage(b.msg)>>)]
  /\ UNCHANGED <<envKey, phase, startupError, agent>>
  /\ UNCHANGED <<health, fmt, cfg>>

\* POST /chat, body fails ChatRequest validation: 422 before the handler runs
ChatReject(i, b) ==
  /\ NextSlot(i)
  /\ ~ValidBody(b)
  /\ req' = [req EXCEPT ![i] = [@ EXCEPT !.pc = "done", !.body = b,
                                         !.status = 422]]
  /\ UNCHANGED <<envKey, phase, startupError, agent, store>>
  /\ UNCHANGED <<health, fmt, cfg>>

\* POST /chat with the agent not initialized: 503
ChatUnavailable(i, b) ==
  /\ NextSlot(i)
  /\ ValidBody(b)
  /\ ~AgentReady(agent)
  /\ req' = [req EXCEPT ![i] = [@ EXCEPT !.pc = "done", !.body = b,
                                         !.status = 503]]
  /\ UNCHANGED <<envKey, phase, startupError, agent, store>>
  /\ UNCHANGED <<health, fmt, cfg>>

\* the requests inside agent.ainvoke on thread t
Running(t) ==
  { j \in Slots : req[j].pc \in {"running", "hung"} /\ req[j].thread = t }

\* POST /chat up to the model call: agent.ainvoke loads the thread's
\* checkpoint, adds the input message, saves the input checkpoint, and the
\* node formats the prompt and calls llm.invoke
ChatStart(i, b) ==
  /\ NextSlot(i)
  /\ ValidBody(b)
  /\ AgentReady(agent)
  /\ LET t == SessionOf(b)
         saved == store[t]
         st == ApplyUpdate(saved, <<UserMessage(b.msg)>>)
         others == Running(t)
     IN /\ store' = [store EXCEPT ![t] = st]
        /\ req' = [j \in Slots |->
             IF j = i
               THEN [req[i] EXCEPT !.pc = "running", !.body = b, !.thread = t,
                                   !.hist0 = saved, !.state = st,
                                   !.prompt = format_messages(st, SYSTEM_PROMPT),
                                   !.calls = @ + 1,
                                   !.overlapped = (others # {}),
                                   !.during = others]
             ELSE IF j \in others
               THEN [req[j] EXCEPT !.overlapped = TRUE]
             ELSE req[j]]
  /\ UNCHANGED <<envKey, phase, startupError, agent>>
  /\ UNCHANGED <<health, fmt, cfg>>

\* a node that calls the model a second time when the first call failed or
\* came back empty
ChatFinishRetry(i, o) ==
  /\ req[i].pc = "running"
  /\ LET t == req[i].thread
         final == ApplyUpdate(req[i].state, call_model(o))
         last_message == final[Len(final)]
     IN /\ store' = [store EXCEPT ![t] = final]
        /\ req' = [req EXCEPT ![i] = [@ EXCEPT !.pc = "done", !.state = final,
                                               !.outcome = o, !.status = 200,
                                               !.calls = IF o.kind = "ok"
                                                           THEN @ ELSE @ + 1,
                                               !.response = last_message.content,
                                               !.session_id = SessionOf(req[i].body)]]
  /\ UNCHANGED <<envKey, phase, startupError, agent>>
  /\ UNCHANGED <<health, fmt, cfg>>

\* a chat that answers a failed or empty model call but does not save the turn
ChatFinishDropFailed(i, o) ==
  /\ req[i].pc = "running"
  /\ LET t == req[i].thread
         final == ApplyUpdate(req[i].state, call_model(o))
         last_message == final[Len(final)]
     IN /\ store' = IF o.kind = "ok" THEN [store EXCEPT ![t] = final] ELSE store
        /\ req' = [req EXCEPT ![i] = [@ EXCEPT !.pc = "done", !.state = final,
                                               !.outcome = o, !.status = 200,
                                               !.response = last_message.content,
                                               !.session_id = SessionOf(req[i].body)]]
  /\ UNCHANGED <<envKey, phase, startupError, agent>>
  /\ UNCHANGED <<health, fmt, cfg>>

\* POST /chat from the model's answer on: _call_model returns its update, the
\* graph saves the final checkpoint, chat returns the last message's content
ChatFinish(i, o) ==
  /\ req[i].pc = "running"
  /\ LET t == req[i].thread
         final == ApplyUpdate(req[i].state, call_model(o))
         last_message == final[Len(final)]
     IN /\ store' = [store EXCEPT ![t] = final]
        /\ req' = [req EXCEPT ![i] = [@ EXCEPT !.pc = "done", !.state = final,
                                               !.outcome = o, !.status = 200,
                                               !.response = last_message.content,
                                               !.session_id = SessionOf(req[i].body)]]
  /\ UNCHANGED <<envKey, phase, startupError, agent>>
  /\ UNCHANGED <<health, fmt, cfg>>

\* an ainvoke that logs the exception and returns None: chat then fails on
\* response.get and reports that error instead
ainvoke_swallow(e) == [id |-> "NoneType_has_no_get", len |-> 41]

\* LangGraphAgent.ainvoke: logs the exception of app.ainvoke and re-raises it
ainvoke_raise(e) == e

\* chat's `except Exception as e`: the detail of the 500 response
error_detail(e) == Concat(ERROR_PREFIX, e)

\* POST /chat when app.ainvoke raises before anything is saved (the checkpoint
\* cannot be loaded): ainvoke re-raises and chat answers 500
ChatGraphErrorEarly(i, b, e) ==
  /\ NextSlot(i)
  /\ ValidBody(b)
  /\ AgentReady(agent)
  /\ req' = [req EXCEPT ![i] =
       [@ EXCEPT !.pc = "done", !.body = b, !.thread = SessionOf(b),
                 !.hist0 = store[SessionOf(b)],
                 !.outcome = [kind |-> "graph_error", text |-> e],
                 !.status = 500,
                 !.detail = error_detail(ainvoke_raise(e))]]
  /\ UNCHANGED <<envKey, phase, startupError, agent, store>>
  /\ UNCHANGED <<health, fmt, cfg>>

\* a graph that fails only after it has saved the node's reply
ChatGraphErrorAfterSave(i, e) ==
  /\ req[i].pc = "running"
  /\ store' = [store EXCEPT ![req[i].thread] =
                 ApplyUpdate(req[i].state, <<AssistantMessage(CANNOT_ANSWER)>>)]
  /\ req' = [req EXCEPT ![i] =
       [@ EXCEPT !.pc = "done",
                 !.outcome = [kind |-> "graph_error", text |-> e],
                 !.status = 500,
                 !.detail = error_detail(ainvoke_raise(e))]]
  /\ UNCHANGED <<envKey, phase, startupError, agent>>
  /\ UNCHANGED <<health, fmt, cfg>>

\* POST /chat when app.ainvoke raises after the node has run (the final
\* checkpoint cannot be saved): ainvoke re-raises and chat answers 500
ChatGraphErrorLate(i, e) ==
  /\ req[i].pc = "running"
  /\ req' = [req EXCEPT ![i] =
       [@ EXCEPT !.pc = "done",
                 !.outcome = [kind |-> "graph_error", text |-> e],
                 !.status = 500,
                 !.detail = error_detail(ainvoke_raise(e))]]
  /\ UNCHANGED <<envKey, phase, startupError, agent, store>>
  /\ UNCHANGED <<health, fmt, cfg>>

Next ==
  \/ StartupOk
  \/ StartupFail
  \/ Shutdown
  \/ \E i \in Slots, b \in Bodies : ChatReject(i, b)
  \/ \E i \in Slots, b \in Bodies : ChatUnavailable(i, b)
  \/ \E i \in Slots, b \in Bodies : ChatStart(i, b)
  \/ \E i \in Slots, o \in ModelOutcomes : ChatFinish(i, o)
  \/ \E i \in Slots, b \in Bodies, e \in GraphErrorTexts :
       ChatGraphErrorEarly(i, b, e)
  \/ \E i \in Slots, e \in GraphErrorTexts : ChatGraphErrorLate(i, e)

Spec == Init /\ [][Next]_vars

\* a health check that reports the agent as ready whatever its state
health_check_always_ready(a) ==
  [code |-> 200, status |-> "healthy", agent_ready |-> TRUE]

\* health_check: HealthResponse(status="healthy", agent_ready=agent is not None)
health_check(a) == [code |-> 200, status |-> "healthy", agent_ready |-> a]

\* GET /health; `at` remembers the lifespan phase in which it was answered
HealthCheck ==
  /\ health' = [code |-> health_check(agent).code,
                status |-> health_check(agent).status,
                agent_ready |-> health_check(agent).agent_ready,
                at |-> phase]
  /\ UNCHANGED <<envKey, phase, startupError, agent, store, req, fmt, cfg>>

NextHealth ==
  \/ Next
  \/ HealthCheck

\* the service with its health endpoint
SpecHealth == Init /\ [][NextHealth]_vars

\* ------------------------------------------------- MessageFormatter, alone
\* The inputs format_message distinguishes: a BaseMessage (role holds its
\* type), a dict (role "absent": no such key; content Absent: no such key;
\* content NoneValue: None), a str, and any other object (content holds its
\* str()).
NoneValue == [id |-> "None", len |-> 4]
MessageInput(type, text) == [shape |-> "message", role |-> type, content |-> text]
DictInput(role, content) == [shape |-> "dict", role |-> role, content |-> content]
StrInput(text) == [shape |-> "str", role |-> "-", content |-> text]
OtherInput(text) == [shape |-> "other", role |-> "-", content |-> text]

Hello == [id |-> "Hello", len |-> 5]

FormatInputs ==
  { MessageInput(t, Hello) : t \in {"system", "human", "ai"} }
  \cup { DictInput(r, c) : r \in {"user", "assistant", "system", "tool", "absent"},
                           c \in {Hello, Absent, NoneValue} }
  \cup { StrInput(Hello), StrInput(NoText) }
  \cup { OtherInput([id |-> "42", len |-> 2]), OtherInput(NoneValue) }

InputLists == UNION { [1..n -> FormatInputs] : n \in 0..MaxInputs }

\* str(msg)
StrOf(x) ==
  IF x.shape \in {"str", "other"} THEN x.content
  ELSE [id |-> x.shape \o "(" \o x.role \o "," \o x.content.id \o ")",
        len |-> x.content.len + 10]

\* the message constructors reject a content that is neither text nor list
Usable(content) == content # NoneValue

Returned(m) == [raised |-> FALSE, msg |-> m]
Raised == [raised |-> TRUE, msg |-> [type |-> "-", content |-> NoText]]

\* a BaseMessage as an input value
AsInput(m) == MessageInput(m.type, m.content)

\* format_message without the isinstance(msg, BaseMessage) branch
FormatMessageRewrap(x) ==
  IF x.shape = "dict"
    THEN LET role == IF x.role = "absent" THEN "user" ELSE x.role
             content == IF x.content = Absent THEN StrOf(x) ELSE x.content
         IN IF Usable(content)
              THEN Returned(format_message([role |-> role, content |-> content]))
              ELSE Raised
  ELSE IF x.shape = "str" THEN Returned(HumanMessage(x.content))
  ELSE Returned(HumanMessage(StrOf(x)))

\* MessageFormatter.format_message on any input: the message it returns, or
\* that the message constructor raised
FormatMessage(x) ==
  IF x.shape = "message" THEN Returned([type |-> x.role, content |-> x.content])
  ELSE IF x.shape = "dict"
    THEN LET role == IF x.role = "absent" THEN "user" ELSE x.role
             content == IF x.content = Absent THEN StrOf(x) ELSE x.content
         IN IF Usable(content)
              THEN Returned(format_message([role |-> role, content |-> content]))
              ELSE Raised
  ELSE IF x.shape = "str" THEN Returned(HumanMessage(x.content))
  ELSE Returned(HumanMessage(StrOf(x)))

\* format_messages without the try/except: an exception ends the call and no
\* list is returned
FormatMessagesNoCatch(xs, system_prompt) ==
  IF \E k \in 1..Len(xs) : FormatMessage(xs[k]).raised
    THEN <<>>
    ELSE <<SystemMessage(system_prompt)>>
           \o [k \in 1..Len(xs) |-> FormatMessage(xs[k]).msg]

\* MessageFormatter.format_messages on any inputs: a message that cannot be
\* formatted becomes HumanMessage(content=str(msg))
FormatMessages(xs, system_prompt) ==
  <<SystemMessage(system_prompt)>>
    \o [k \in 1..Len(xs) |->
          IF FormatMessage(xs[k]).raised
            THEN HumanMessage(StrOf(xs[k]))
            ELSE FormatMessage(xs[k]).msg]

InitFormat ==
  /\ envKey = "set"
  /\ phase = "init"
  /\ startupError = "none"
  /\ agent = FALSE
  /\ store = [t \in AllThreads |-> <<>>]
  /\ req = [i \in Slots |-> IdleRequest]
  /\ health = NoHealth
  /\ fmt \in { [xs |-> xs, op |-> "none", one |-> Raised, two |-> Raised,
                all |-> <<>>] : xs \in InputLists }
  /\ cfg = NoCfg

\* format_message(xs[1])
CallFormatMessage ==
  /\ fmt.op = "none"
  /\ Len(fmt.xs) = 1
  /\ fmt' = [fmt EXCEPT !.op = "format_message",
                        !.one = FormatMessage(fmt.xs[1])]
  /\ UNCHANGED <<envKey, phase, startupError, agent, store, req, health, cfg>>

\* format_message applied to the message the first call returned
CallFormatMessageAgain ==
  /\ fmt.op = "format_message"
  /\ ~fmt.one.raised
  /\ fmt' = [fmt EXCEPT !.op = "format_message_twice",
                        !.two = FormatMessage(AsInput(fmt.one.msg))]
  /\ UNCHANGED <<envKey, phase, startupError, agent, store, req, health, cfg>>

\* format_messages(xs, system_prompt)
CallFormatMessages ==
  /\ fmt.op = "none"
  /\ fmt' = [fmt EXCEPT !.op = "format_messages",
                        !.all = FormatMessages(fmt.xs, SYSTEM_PROMPT)]
  /\ UNCHANGED <<envKey, phase, startupError, agent, store, req, health, cfg>>

NextFormat ==
  \/ CallFormatMessage
  \/ CallFormatMessageAgain
  \/ CallFormatMessages

\* the MessageFormatter called on its own
SpecFormat == InitFormat /\ [][NextFormat]_vars

\* llm.invoke never returns: _create_llm passes no timeout to the client and
\* nothing else bounds the call, so the request waits for ever
ModelHangs(i) ==
  /\ req[i].pc = "running"
  /\ req' = [req EXCEPT ![i] = [@ EXCEPT !.pc = "hung"]]
  /\ UNCHANGED <<envKey, phase, startupError, agent, store, health, fmt, cfg>>

NextRemote ==
  \/ Next
  \/ \E i \in Slots : ModelHangs(i)

\* the service with a remote model that may not answer; a model call that
\* does return is eventually handled, and so is a failure of the graph
SpecRemote ==
  /\ Init
  /\ [][NextRemote]_vars
  /\ \A i \in Slots :
       WF_vars((\E o \in ModelOutcomes : ChatFinish(i, o))
               \/ (\E e \in GraphErrorTexts : ChatGraphErrorLate(i, e))
               \/ ModelHangs(i))

\* ------------------------------------------ create_agent and AgentConfig
DEFAULT_MODEL == "gemini-1.5-flash"

\* configurations a caller can hand to create_agent: each holds a key, so
\* its construction did not look at the environment
ExplicitConfigs ==
  { [model |-> m, api_key |-> k] :
      m \in {DEFAULT_MODEL, "gemini-1.5-pro"}, k \in {"test_api_key", "other_key"} }

ConfigArgs == ExplicitConfigs \cup {NoConfig}

\* what the constructor of the model client does
LlmOutcomes == {"ok", "raises"}

\* the configuration AgentConfig.from_env builds (model from its default)
EnvConfig(env) == [model |-> DEFAULT_MODEL, api_key |-> FromEnvApiKey(env)]

\* a create_agent that logs a failure and returns the agent as far as built
create_agent_swallow(config, env, llm) ==
  LET calls == IF config = NoConfig THEN 1 ELSE 0
      used == IF config = NoConfig THEN EnvConfig(env) ELSE config
  IN [raised |-> FALSE, error |-> "-", agent |-> [config |-> used],
      get_agent_config |-> calls]

\* create_agent(config): get_agent_config() only for a None argument, then
\* LangGraphAgent(config), whose __init__ keeps the config and builds the
\* model client; every exception is logged and re-raised
create_agent(config, env, llm) ==
  LET calls == IF config = NoConfig THEN 1 ELSE 0
      used == IF config = NoConfig THEN EnvConfig(env) ELSE config
  IN IF config = NoConfig /\ GetAgentConfigRaises(env)
       THEN [raised |-> TRUE, error |-> "ValueError", agent |-> NoAgent,
             get_agent_config |-> calls]
     ELSE IF llm = "raises"
       THEN [raised |-> TRUE, error |-> "ClientError", agent |-> NoAgent,
             get_agent_config |-> calls]
     ELSE [raised |-> FALSE, error |-> "-", agent |-> [config |-> used],
           get_agent_config |-> calls]

InitConfig ==
  /\ envKey \in EnvKeyValues
  /\ phase = "init"
  /\ startupError = "none"
  /\ agent = FALSE
  /\ store = [t \in AllThreads |-> <<>>]
  /\ req = [i \in Slots |-> IdleRequest]
  /\ health = NoHealth
  /\ fmt = NoFmt
  /\ cfg \in { [NoCfg EXCEPT !.arg = a, !.llm = l] :
                a \in ConfigArgs, l \in LlmOutcomes }

\* create_agent(cfg.arg)
CallCreateAgent ==
  /\ ~cfg.called
  /\ cfg' = [cfg EXCEPT !.called = TRUE,
                         !.created = create_agent(cfg.arg, envKey, cfg.llm)]
  /\ UNCHANGED <<envKey, phase, startupError, agent, store, req, health, fmt>>

\* AgentConfig()
CallAgentConfig ==
  /\ cfg.direct = "-"
  /\ cfg' = [cfg EXCEPT !.direct = IF PostInitRaises("None", envKey)
                                     THEN "ValueError" ELSE "built"]
  /\ UNCHANGED <<envKey, phase, startupError, agent, store, req, health, fmt>>

\* AgentConfig.from_env()
CallFromEnv ==
  /\ cfg.fromEnv = "-"
  /\ cfg' = [cfg EXCEPT !.fromEnv = IF FromEnvRaises(envKey)
                                      THEN "ValueError" ELSE "built"]
  /\ UNCHANGED <<envKey, phase, startupError, agent, store, req, health, fmt>>

NextConfig ==
  \/ CallCreateAgent
  \/ CallAgentConfig
  \/ CallFromEnv

\* create_agent and the constructors of AgentConfig called on their own
SpecConfig == InitConfig /\ [][NextConfig]_vars

\* ------------------------------------ the root-level service (src/app.py)
\* detail of the 500 answered while the agent is not initialized
AGENT_NOT_INITIALIZED == [id |-> "agent_not_initialized", len |-> 9]

\* str() of the exception the checkpointer raises for a missing thread_id
THREAD_ID_ERROR == [id |-> "thread_id", len |-> 11]

\* ChatRequest of app.py: message: str, session_id: str = "default", with no
\* constraint on the lengths
RootValidBody(b) == b.msg # Absent

\* the "configurable" dict chat hands to agent.ainvoke
RootConfigurable(b) == [session_id |-> SessionOf(b)]

\* a graph compiled with a MemorySaver looks its checkpoint up under
\* configurable["thread_id"] and raises when the key is missing
CheckpointerRaises(configurable) == "thread_id" \notin DOMAIN configurable

\* startup_event: create_agent() of src/agent.py, which raises ValueError
\* for an unset or empty GEMINI_API_KEY
RootStartupOk ==
  /\ phase = "init"
  /\ Truthy(getenv(envKey))
  /\ phase' = "started"
  /\ agent' = TRUE
  /\ UNCHANGED <<envKey, startupError, store, req>>
  /\ UNCHANGED <<health, fmt, cfg>>

RootStartupFail ==
  /\ phase = "init"
  /\ ~Truthy(getenv(envKey))
  /\ phase' = "failed"
  /\ startupError' = "ValueError"
  /\ UNCHANGED <<envKey, agent, store, req>>
  /\ UNCHANGED <<health, fmt, cfg>>

\* POST /chat without a message: 422
RootChatReject(i, b) ==
  /\ NextSlot(i)
  /\ ~RootValidBody(b)
  /\ req' = [req EXCEPT ![i] = [@ EXCEPT !.pc = "done", !.body = b,
                                         !.status = 422]]
  /\ UNCHANGED <<envKey, phase, startupError, agent, store>>
  /\ UNCHANGED <<health, fmt, cfg>>

\* POST /chat with `not agent`: 500
RootChatUninitialized(i, b) ==
  /\ NextSlot(i)
  /\ RootValidBody(b)
  /\ ~agent
  /\ req' = [req EXCEPT ![i] =
       [@ EXCEPT !.pc = "done", !.body = b,
                 !.outcome = [kind |-> "uninitialized", text |-> NoText],
                 !.status = 500, !.detail = AGENT_NOT_INITIALIZED]]
  /\ UNCHANGED <<envKey, phase, startupError, agent, store>>
  /\ UNCHANGED <<health, fmt, cfg>>

\* POST /chat on the initialized agent: agent.ainvoke is given
\* configurable = {"session_id": ...}; the checkpointer raises before the node
\* runs and chat's `except Exception` answers 500. (With the key chat passes
\* the guard on CheckpointerRaises is always true, so the handler has no
\* other way to end.)
RootChat(i, b) ==
  /\ NextSlot(i)
  /\ RootValidBody(b)
  /\ agent
  /\ CheckpointerRaises(RootConfigurable(b))
  /\ req' = [req EXCEPT ![i] =
       [@ EXCEPT !.pc = "done", !.body = b,
                 !.outcome = [kind |-> "graph_error", text |-> THREAD_ID_ERROR],
                 !.status = 500,
                 !.detail = Concat(ERROR_PREFIX, THREAD_ID_ERROR)]]
  /\ UNCHANGED <<envKey, phase, startupError, agent, store>>
  /\ UNCHANGED <<health, fmt, cfg>>

NextRoot ==
  \/ RootStartupOk
  \/ RootStartupFail
  \/ \E i \in Slots, b \in Bodies : RootChatReject(i, b)
  \/ \E i \in Slots, b \in Bodies : RootChatUninitialized(i, b)
  \/ \E i \in Slots, b \in Bodies : RootChat(i, b)

\* the root-level service
SpecRoot == Init /\ [][NextRoot]_vars

TypeOK ==
  /\ envKey \in EnvKeyValues
  /\ phase \in {"init", "started", "failed", "stopped"}
  /\ agent \in BOOLEAN
  /\ \A i \in Slots : req[i].pc \in {"idle", "running", "hung", "done"}

\* =================================================================== claims
\* requests on thread t that were answered 200
Answered(t) == { i \in Slots : req[i].status = 200 /\ req[i].thread = t }

\* the turn of request n as the claims describe it
TurnOf(n) ==
  << [role |-> "user", content |-> req[n].body.msg],
     [role |-> "assistant", content |-> req[n].response] >>

\* the turns of the answered requests of thread t among 1..n, in call order
RECURSIVE TurnsUpTo(_, _)
TurnsUpTo(t, n) ==
  IF n = 0 THEN <<>>
  ELSE TurnsUpTo(t, n - 1) \o (IF n \in Answered(t) THEN TurnOf(n) ELSE <<>>)

\* the requests of thread t were issued one after another and have all
\* returned 200
OneAfterAnother(t) ==
  /\ Running(t) = {}
  /\ \A i \in Slots :
       req[i].thread = t => (~req[i].overlapped /\ req[i].status = 200)

\* C1: after N requests of one session issued one after another and answered
\* 200, the session's history is exactly the N turns in call order: 2N
\* messages, user text then the reply returned to that request.
C1_SequentialHistory ==
  \A t \in AllThreads :
    OneAfterAnother(t) =>
      /\ Len(store[t]) = 2 * Cardinality(Answered(t))
      /\ store[t] = TurnsUpTo(t, MaxRequests)

\* two requests of one session, one after the other, with different texts
C1_Witness ==
  \E t \in AllThreads :
    /\ OneAfterAnother(t)
    /\ Answered(t) = {1, 2}
    /\ req[1].body.msg # req[2].body.msg
    /\ Len(store[t]) = 4

\* the turn of request n stands in h as two neighbouring messages
HasTurn(h, n) ==
  \E k \in 1..(Len(h) - 1) : h[k] = TurnOf(n)[1] /\ h[k + 1] = TurnOf(n)[2]

\* C2: when request j of a session is accepted while request i of the same
\* session is still waiting for the model, then once both have returned (and
\* no other request used the session) the history has grown by exactly 4
\* messages and holds both turns, each user message followed by its own reply.
C2_OverlapSerialized ==
  \A i, j \in Slots :
    ( /\ i \in req[j].during
      /\ req[i].status = 200
      /\ req[j].status = 200
      /\ \A k \in Slots \ {i, j} : req[k].thread # req[i].thread )
    => LET h == store[req[i].thread]
       IN /\ Len(h) = Len(req[i].hist0) + 4
          /\ HasTurn(h, i)
          /\ HasTurn(h, j)

\* the prompt the claim describes for request i
ExpectedPrompt(i) ==
  << [type |-> "system", content |-> SYSTEM_PROMPT] >>
  \o [k \in 1..Len(req[i].hist0) |->
        [type |-> IF req[i].hist0[k].role = "user" THEN "human" ELSE "ai",
         content |-> req[i].hist0[k].content]]
  \o << [type |-> "human", content |-> req[i].body.msg] >>

\* C3: the messages sent to the model are the system prompt, then the
\* session's stored history as it was when the request read it, in stored
\* order, then the new user message; nothing dropped, added or reordered.
C3_PromptShape ==
  \A i \in Slots : req[i].calls > 0 => req[i].prompt = ExpectedPrompt(i)

\* the second of two successive requests sends the first one's turn as context
C3_Witness ==
  /\ req[1].status = 200
  /\ req[2].calls > 0
  /\ req[2].thread = req[1].thread
  /\ req[2].hist0 = TurnOf(1)
  /\ Len(req[2].prompt) = 4

\* request i returns in this step after its model call raised
ReturnsAfterRaise(i) ==
  /\ req[i].pc = "running"
  /\ req[i]'.pc = "done"
  /\ req[i]'.outcome.kind = "raise"

\* C4: a chat request whose model call raised returns 200 with a non-empty
\* response, and the step leaves the agent and the server phase as they were.
C4_RaiseGives200 ==
  [][\A i \in Slots :
       ReturnsAfterRaise(i) =>
         /\ req[i]'.status = 200
         /\ req[i]'.response.len > 0
         /\ agent' = agent
         /\ phase' = phase]_vars

\* a request whose model call raised an exception with an empty text got 200,
\* and a later request on the same server was answered too
C4_Witness ==
  /\ req[1].outcome.kind = "raise"
  /\ req[1].outcome.text.len = 0
  /\ req[1].status = 200
  /\ req[1].response.len > 0
  /\ req[2].status = 200
  /\ 1 \notin req[2].during

\* C5: two requests whose model calls raised get the identical response text.
C5_FixedFallback ==
  \A i, j \in Slots :
    ( /\ req[i].status = 200 /\ req[i].outcome.kind = "raise"
      /\ req[j].status = 200 /\ req[j].outcome.kind = "raise" )
    => req[i].response = req[j].response

\* C6: a model call that returns no response or empty content is answered 200
\* with the fixed cannot-answer text, which is also the stored reply.
C6_EmptyGivesCannotAnswer ==
  \A i \in Slots :
    (req[i].pc = "done" /\ req[i].outcome.kind \in {"none", "empty"}) =>
      /\ req[i].status = 200
      /\ req[i].response = CANNOT_ANSWER
      /\ req[i].state[Len(req[i].state)] =
           [role |-> "assistant", content |-> CANNOT_ANSWER]

\* one request met a missing response, another an empty content
C6_Witness ==
  \E i, j \in Slots :
    /\ req[i].outcome.kind = "none" /\ req[i].status = 200
    /\ req[j].outcome.kind = "empty" /\ req[j].status = 200

\* the constraints as the claim states them
C8_Accepts(b) ==
  /\ b.msg # Absent
  /\ 1 <= b.msg.len /\ b.msg.len <= 4000
  /\ b.sid # Absent => (1 <= b.sid.len /\ b.sid.len <= 100)

\* request i is handled in this step
Handled(i) == req[i].pc = "idle" /\ req[i]'.pc # "idle"

\* C7: a valid chat request handled while the agent is not initialized returns
\* 503 at once, without a model call and without touching any history.
C7_Uninitialized503 ==
  [][\A i \in Slots :
       (Handled(i) /\ C8_Accepts(req[i]'.body) /\ ~agent) =>
         /\ req[i]'.pc = "done"
         /\ req[i]'.status = 503
         /\ req[i]'.calls = 0
         /\ req[i]'.prompt = <<>>
         /\ store' = store]_vars

\* a 503 after shutdown, on a server that had recorded a turn before
C7_Witness ==
  /\ phase = "stopped"
  /\ req[1].status = 200
  /\ req[2].status = 503
  /\ store[req[1].thread] = TurnOf(1)

\* C8: a handled body is refused with 422 exactly when it is not one with a
\* message of 1..4000 characters and, if given, a session_id of 1..100.
C8_ValidationBounds ==
  \A i \in Slots :
    req[i].pc # "idle" => (req[i].status = 422 <=> ~C8_Accepts(req[i].body))

\* 4000 characters accepted, 4001 refused
C8_Witness ==
  \E i, j \in Slots :
    /\ req[i].body.msg.len = 4000 /\ req[i].status = 200
    /\ req[j].body.msg.len = 4001 /\ req[j].status = 422

\* C9: handling a body that fails validation invokes no model and changes no
\* session history and not the agent.
C9_InvalidBodyNoEffect ==
  [][\A i \in Slots :
       (Handled(i) /\ ~C8_Accepts(req[i]'.body)) =>
         /\ req[i]'.calls = 0
         /\ req[i]'.prompt = <<>>
         /\ store' = store
         /\ agent' = agent
         /\ \A j \in Slots \ {i} : req[j]' = req[j]]_vars

\* a refused body on a started server whose session already has a history
C9_Witness ==
  /\ agent
  /\ req[1].status = 200
  /\ req[2].status = 422
  /\ req[2].body.sid = req[1].thread
  /\ store[req[1].thread] = TurnOf(1)

\* C10: with GEMINI_API_KEY unset the startup fails with the ValueError of the
\* configuration, the agent is never set, no chat request is answered 200 and
\* the model is never invoked.
C10_MissingKeyNoService ==
  envKey = "unset" =>
    /\ phase \in {"init", "failed"}
    /\ phase = "failed" => startupError = "ValueError"
    /\ ~agent
    /\ \A i \in Slots : req[i].status # 200 /\ req[i].calls = 0

\* the startup has failed and a chat request was turned away
C10_Witness ==
  /\ envKey = "unset"
  /\ phase = "failed"
  /\ startupError = "ValueError"
  /\ \E i \in Slots : req[i].status = 503

\* C11: when the graph invocation fails, the request is answered 500 with a
\* detail made of the fixed prefix and that exception's own text; a request
\* whose model call raised is answered 200, and only graph failures give 500.
C11_GraphFailure500 ==
  \A i \in Slots :
    /\ req[i].outcome.kind = "graph_error" =>
         /\ req[i].status = 500
         /\ req[i].detail.id = "error_prefix+" \o req[i].outcome.text.id
         /\ req[i].detail.len = 11 + req[i].outcome.text.len
    /\ req[i].outcome.kind = "raise" => req[i].status = 200
    /\ req[i].status = 500 => req[i].outcome.kind = "graph_error"

\* one request met a graph failure after its model call, another a model
\* failure
C11_Witness ==
  \E i, j \in Slots :
    /\ req[i].status = 500 /\ req[i].calls = 1
    /\ req[i].outcome.kind = "graph_error"
    /\ req[j].status = 200 /\ req[j].outcome.kind = "raise"

\* C12: every GET /health answers 200 "healthy"; its agent_ready is true
\* exactly when it is answered between a successful startup and the shutdown;
\* and in every state a valid chat request is answered 503 exactly when the
\* health check of that state reports agent_ready false.
C12_HealthTracksAgent ==
  [][ /\ health'.code # 0 =>
           /\ health'.code = 200
           /\ health'.status = "healthy"
           /\ health'.agent_ready <=> (health'.at = "started")
      /\ \A i \in Slots :
           (Handled(i) /\ C8_Accepts(req[i]'.body)) =>
             ((req[i]'.status = 503) <=> ~health_check(agent).agent_ready)
    ]_vars

\* a health check after the shutdown of a server that had answered a chat
C12_Witness ==
  /\ health.code = 200
  /\ health.at = "stopped"
  /\ ~health.agent_ready
  /\ req[1].status = 200
  /\ req[2].status = 503

\* the session a request names, as the claims state it
NamedSession(b) == IF b.sid = Absent THEN [id |-> "default", len |-> 7] ELSE b.sid

\* the reply the claims expect for an outcome of the model call
ReplyFor(o) ==
  IF o.kind = "ok" THEN o.text
  ELSE IF o.kind = "raise"
    THEN [id |-> "error_prefix+" \o o.text.id, len |-> 11 + o.text.len]
  ELSE [id |-> "cannot_answer", len |-> 15]

\* C13: every 200 response carries the request's own session_id and the
\* content of the assistant message made from the outcome of the request's own
\* model call, whose prompt ended with the request's own user message.
C13_OwnReply ==
  \A i \in Slots :
    req[i].status = 200 =>
      /\ req[i].session_id = NamedSession(req[i].body)
      /\ req[i].response = ReplyFor(req[i].outcome)
      /\ req[i].prompt[Len(req[i].prompt)] =
           [type |-> "human", content |-> req[i].body.msg]

\* two overlapping requests of one session, with different texts and different
\* replies, both answered
C13_Witness ==
  /\ 1 \in req[2].during
  /\ req[1].status = 200
  /\ req[2].status = 200
  /\ req[1].body.msg # req[2].body.msg
  /\ req[1].response # req[2].response

\* request i reached the graph and no earlier request named its session
FirstOnSession(i) ==
  /\ req[i].calls > 0
  /\ \A k \in Slots : k < i => req[k].thread # NamedSession(req[i].body)

\* C14: a valid request on a session no earlier request has named reads an
\* empty history, sends exactly [system message, its user message] to the
\* model, and once answered 200 (no other request having used the session)
\* leaves the session with exactly its user message and its reply.
C14_FreshSession ==
  \A i \in Slots :
    FirstOnSession(i) =>
      /\ req[i].hist0 = <<>>
      /\ req[i].prompt = << [type |-> "system", content |-> SYSTEM_PROMPT],
                            [type |-> "human", content |-> req[i].body.msg] >>
      /\ ( /\ req[i].status = 200
           /\ \A k \in Slots : k > i => req[k].thread # NamedSession(req[i].body) )
         => /\ Len(store[NamedSession(req[i].body)]) = 2
            /\ store[NamedSession(req[i].body)] = TurnOf(i)

\* the second request is the first one on its session and was answered, after
\* an earlier request had filled another session
C14_Witness ==
  /\ req[1].status = 200
  /\ FirstOnSession(2)
  /\ req[2].status = 200
  /\ store[req[2].thread] = TurnOf(2)
  /\ store[req[1].thread] = TurnOf(1)

\* request i changes in this step
Acts(i) == req[i]' # req[i]

\* C15: a step of a request on session A leaves the history of every other
\* session as it was, and the prompt it assembles holds, between the system
\* message and the new user message, exactly the messages stored under A.
C15_SessionsIsolated ==
  [][\A i \in Slots :
       Acts(i) =>
         /\ \A u \in AllThreads :
              u # NamedSession(req[i]'.body) => store'[u] = store[u]
         /\ (Handled(i) /\ req[i]'.calls > 0) =>
              LET h == store[NamedSession(req[i]'.body)]
              IN /\ req[i]'.hist0 = h
                 /\ Len(req[i]'.prompt) = Len(h) + 2
                 /\ \A k \in 1..Len(h) :
                      req[i]'.prompt[k + 1].content = h[k].content]_vars

\* two answered requests on different sessions, each session holding its own
\* turn only
C15_Witness ==
  /\ req[1].status = 200
  /\ req[2].status = 200
  /\ req[1].thread # req[2].thread
  /\ req[2].hist0 = <<>>
  /\ store[req[1].thread] = TurnOf(1)
  /\ store[req[2].thread] = TurnOf(2)

\* C20: a request without session_id runs on the session named "default": it
\* reads that session's stored history, appends its user message to it, its
\* reply ends up there, and a 200 response carries session_id "default".
C20_DefaultSession ==
  [][\A i \in Slots :
       LET dflt == [id |-> "default", len |-> 7]
       IN /\ (Handled(i) /\ req[i]'.calls > 0 /\ req[i]'.body.sid = Absent) =>
               /\ req[i]'.hist0 = store[dflt]
               /\ store'[dflt] = store[dflt] \o
                    << [role |-> "user", content |-> req[i]'.body.msg] >>
          /\ (req[i].pc = "running" /\ req[i]'.status = 200
                /\ req[i].body.sid = Absent) =>
               /\ req[i]'.session_id = dflt
               /\ store'[dflt][Len(store'[dflt])] =
                    [role |-> "assistant", content |-> req[i]'.response]]_vars

\* a request naming "default" and then one without session_id share a history
C20_Witness ==
  /\ req[1].body.sid = [id |-> "default", len |-> 7]
  /\ req[1].status = 200
  /\ req[2].body.sid = Absent
  /\ req[2].status = 200
  /\ req[2].hist0 = TurnOf(1)
  /\ req[2].session_id = [id |-> "default", len |-> 7]
  /\ store[[id |-> "default", len |-> 7]] = TurnOf(1) \o TurnOf(2)

\* C16: every chat request that was accepted and sent to the model is
\* eventually answered.
C16_EventuallyAnswered ==
  \A i \in Slots : (req[i].calls > 0) ~> (req[i].status # 0)

\* the message type the claims give for a role
TypeForRole(r) ==
  CASE r = "user" -> "human"
    [] r = "assistant" -> "ai"
    [] r = "system" -> "system"
    [] OTHER -> "human"

\* a record that carries a content that is a text
HasTextContent(x) == x.shape = "dict" /\ x.content \notin {Absent, NoneValue}

\* C17: format_message on a record with a role and a content returns a user
\* message for role "user", an assistant message for "assistant", a system
\* message for "system" and a user message for any other role or no role,
\* always with the record's content as the message content.
C17_RoleMapping ==
  (fmt.op \in {"format_message", "format_message_twice"}
     /\ HasTextContent(fmt.xs[1])) =>
    /\ ~fmt.one.raised
    /\ fmt.one.msg.type = TypeForRole(fmt.xs[1].role)
    /\ fmt.one.msg.content = fmt.xs[1].content

\* a record of role "system" was formatted
C17_Witness ==
  /\ fmt.op = "format_message"
  /\ fmt.xs[1] = [shape |-> "dict", role |-> "system", content |-> Hello]
  /\ fmt.one.msg = [type |-> "system", content |-> Hello]

\* an input of an unrecognized shape, as C18 counts them
Unrecognized(x) ==
  \/ x.shape = "other"
  \/ x.shape = "dict" /\ x.content \in {Absent, NoneValue}

\* the message C18 expects for an input
C18_Expected(x) ==
  IF x.shape = "message" THEN [type |-> x.role, content |-> x.content]
  ELSE IF Unrecognized(x) THEN [type |-> "human", content |-> StrOf(x)]
  ELSE IF x.shape = "str" THEN [type |-> "human", content |-> x.content]
  ELSE [type |-> TypeForRole(x.role), content |-> x.content]

\* C18 as stated: format_message never raises, raw text becomes a user message
\* with that text, an input of an unrecognized shape (a record without content
\* or with unusable content included) becomes a user message holding its
\* textual representation, and format_messages on k inputs returns the system
\* prompt and then one such message per input, in order.
C18_NeverFails ==
  /\ fmt.op = "format_message" =>
       /\ ~fmt.one.raised
       /\ fmt.one.msg = C18_Expected(fmt.xs[1])
  /\ fmt.op = "format_messages" =>
       /\ Len(fmt.all) = Len(fmt.xs) + 1
       /\ fmt.all[1] = [type |-> "system", content |-> SYSTEM_PROMPT]
       /\ \A k \in 1..Len(fmt.xs) : fmt.all[k + 1] = C18_Expected(fmt.xs[k])

\* the message the amended C18 expects from format_messages for an input
C18_AmendedExpected(x) ==
  IF x.shape = "dict" /\ x.content = Absent
    THEN [type |-> TypeForRole(x.role), content |-> StrOf(x)]
    ELSE C18_Expected(x)

\* C18 (amended): format_messages never raises and returns, for k inputs, the
\* system prompt and then one message per input in order: raw text as a user
\* message with that text; an input that is neither message, record nor text,
\* and a record with unusable content, as a user message holding its textual
\* representation; a record without content as a message of the record's own
\* role (user unless the role is assistant or system) holding the record's
\* textual representation.  format_message alone returns the same message
\* except for a record with unusable content, on which it raises.
C18_PipelineNeverFails ==
  /\ fmt.op = "format_message" =>
       /\ fmt.one.raised <=>
            (fmt.xs[1].shape = "dict" /\ fmt.xs[1].content = NoneValue)
       /\ ~fmt.one.raised => fmt.one.msg = C18_AmendedExpected(fmt.xs[1])
  /\ fmt.op = "format_messages" =>
       /\ Len(fmt.all) = Len(fmt.xs) + 1
       /\ fmt.all[1] = [type |-> "system", content |-> SYSTEM_PROMPT]
       /\ \A k \in 1..Len(fmt.xs) :
            fmt.all[k + 1] = C18_AmendedExpected(fmt.xs[k])

\* format_messages on a record with unusable content followed by an assistant
\* record without content
C18_Witness ==
  /\ fmt.op = "format_messages"
  /\ Len(fmt.xs) = 2
  /\ fmt.xs[1] = [shape |-> "dict", role |-> "assistant", content |-> NoneValue]
  /\ fmt.xs[2] = [shape |-> "dict", role |-> "assistant", content |-> Absent]
  /\ Len(fmt.all) = 3
  /\ fmt.all[2].type = "human"
  /\ fmt.all[3].type = "ai"

\* C19: format_message applied to the message format_message returned gives
\* a message of the same role and the same content.
C19_Idempotent ==
  fmt.op = "format_message_twice" =>
    /\ ~fmt.two.raised
    /\ fmt.two.msg.type = fmt.one.msg.type
    /\ fmt.two.msg.content = fmt.one.msg.content

\* an assistant record was formatted, and the result formatted again
C19_Witness ==
  /\ fmt.op = "format_message_twice"
  /\ fmt.xs[1] = [shape |-> "dict", role |-> "assistant", content |-> Hello]
  /\ fmt.two.msg = [type |-> "ai", content |-> Hello]

\* the model call of request i failed or came back empty
FailedCall(o) == o.kind \in {"raise", "empty", "none"}

\* request i returns in this step after such a call, no other request having
\* used its session while it was handled
ReturnsFallback(i) ==
  /\ req[i].pc = "running"
  /\ req[i]'.status = 200
  /\ FailedCall(req[i]'.outcome)
  /\ ~req[i].overlapped

\* request j is handled in this step and is the next request on the session
\* of request i, which has returned a fallback
NextAfterFallback(i, j) ==
  /\ i < j
  /\ req[i].status = 200
  /\ FailedCall(req[i].outcome)
  /\ ~req[i].overlapped
  /\ Handled(j)
  /\ req[j]'.calls > 0
  /\ req[j]'.thread = req[i].thread
  /\ \A k \in Slots : (i < k /\ k < j) => req[k].thread # req[i].thread

\* C21: a turn whose model call failed or returned empty content is recorded:
\* the session's history becomes what the request read plus its user message
\* plus one assistant message holding the fallback text, and the next request
\* on that session sends that user message and that fallback text, as an
\* assistant message, right before its own user message.
C21_FailedTurnRecorded ==
  [][\A i \in Slots :
       /\ ReturnsFallback(i) =>
            /\ store'[req[i].thread] =
                 req[i].hist0
                 \o << [role |-> "user", content |-> req[i].body.msg],
                       [role |-> "assistant",
                        content |-> ReplyFor(req[i]'.outcome)] >>
            /\ Len(store'[req[i].thread]) = Len(store[req[i].thread]) + 1
       /\ \A j \in Slots :
            NextAfterFallback(i, j) =>
              LET p == req[j]'.prompt
              IN /\ Len(p) >= 4
                 /\ p[Len(p) - 2] =
                      [type |-> "human", content |-> req[i].body.msg]
                 /\ p[Len(p) - 1] =
                      [type |-> "ai", content |-> ReplyFor(req[i].outcome)]
                 /\ p[Len(p)] =
                      [type |-> "human", content |-> req[j]'.body.msg]]_vars

\* a request whose model call raised was answered, and the next request on
\* the session sent the error text to the model as an assistant message
C21_Witness ==
  /\ req[1].status = 200
  /\ req[1].outcome.kind = "raise"
  /\ ~req[1].overlapped
  /\ req[2].calls > 0
  /\ req[2].thread = req[1].thread
  /\ Len(req[2].hist0) = 2
  /\ req[2].prompt[3] = [type |-> "ai", content |-> ReplyFor(req[1].outcome)]

\* request i passed validation and was handled on a started server
ValidOnStarted(i) ==
  /\ req[i].pc # "idle"
  /\ C8_Accepts(req[i].body)
  /\ req[i].status # 503

\* C22, as stated: every request that passes validation on a started server
\* has invoked the model exactly once, and a request answered 422 or 503 has
\* invoked it zero times.
C22_ExactlyOneCall ==
  \A i \in Slots :
    /\ ValidOnStarted(i) => req[i].calls = 1
    /\ req[i].status \in {422, 503} => req[i].calls = 0

\* C22, amended: a request that passes validation on a started server invokes
\* the model at most once, and exactly once as soon as the node has run (so
\* for every request under way or answered 200, a failed or empty call
\* included: no retry); a request answered 500 because the graph failed
\* before the node ran, like one answered 422 or 503, has invoked it zero
\* times.
C22_AtMostOneCall ==
  \A i \in Slots :
    /\ req[i].calls <= 1
    /\ (req[i].pc \in {"running", "hung"} \/ req[i].status = 200) =>
         req[i].calls = 1
    /\ req[i].status = 500 =>
         req[i].calls = (IF req[i].prompt = <<>> THEN 0 ELSE 1)
    /\ req[i].status \in {422, 503} => req[i].calls = 0

\* one request was answered after its model call raised, another was answered
\* 500 without the node having run
C22_Witness ==
  \E i, j \in Slots :
    /\ req[i].status = 200 /\ req[i].outcome.kind = "raise"
    /\ req[i].calls = 1
    /\ ValidOnStarted(j) /\ req[j].status = 500 /\ req[j].calls = 0

\* C23: between startup and shutdown the agent is created exactly once (only
\* the startup step creates it, only the shutdown step removes it, and the
\* server never returns to the phase in which it is created); no step of a
\* request creates, replaces or resets the agent or empties a history; every
\* request that reaches the agent reads the one store; and, until shutdown,
\* the turn of every request answered 200 stands in the history its session's
\* later requests read.
C23_OneAgentOneStore ==
  [][/\ (~agent /\ agent') => (phase = "init" /\ phase' = "started")
     /\ (agent /\ ~agent') => (phase = "started" /\ phase' = "stopped")
     /\ phase' = "init" => phase = "init"
     /\ (phase = "started" /\ phase' = "started") => (agent /\ agent')
     /\ \A i \in Slots :
          Acts(i) =>
            /\ agent' = agent
            /\ phase' = phase
            /\ \A t \in AllThreads : store'[t] = <<>> => store[t] = <<>>
     /\ \A j \in Slots :
          (Handled(j) /\ req[j]'.calls > 0) =>
            req[j]'.hist0 = store[req[j]'.thread]
     /\ \A i \in Slots :
          ((req[i].status = 200 /\ phase = "started") =>
             HasTurn(store[req[i].thread], i))']_vars

\* building the agent fails: no configuration can be had from the
\* environment, or the model client cannot be built
BuildFails ==
  \/ cfg.llm = "raises"
  \/ cfg.arg = NoConfig /\ envKey = "unset"

\* C24: create_agent with an explicit configuration never calls
\* get_agent_config and returns an agent holding exactly that configuration,
\* whatever the environment; without an argument it calls get_agent_config
\* exactly once; in both cases a failure while building is raised to the
\* caller and no agent is returned.
C24_CreateAgent ==
  cfg.called =>
    /\ cfg.arg # NoConfig =>
         /\ cfg.created.get_agent_config = 0
         /\ ~cfg.created.raised => cfg.created.agent = [config |-> cfg.arg]
    /\ cfg.arg = NoConfig => cfg.created.get_agent_config = 1
    /\ cfg.created.raised <=> BuildFails
    /\ cfg.created.raised => cfg.created.agent = NoAgent
    /\ ~cfg.created.raised => cfg.created.agent # NoAgent

\* create_agent was given a configuration whose key differs from the
\* environment's and returned an agent holding it
C24_Witness ==
  /\ cfg.called
  /\ cfg.arg = [model |-> "gemini-1.5-pro", api_key |-> "other_key"]
  /\ envKey = "unset"
  /\ ~cfg.created.raised
  /\ cfg.created.agent.config = cfg.arg

\* C26: for every value of GEMINI_API_KEY, AgentConfig() and
\* AgentConfig.from_env() agree on raising ValueError, and both raise it for
\* an unset key and for an empty key.
C26_ConstructorsAgree ==
  (cfg.direct # "-" /\ cfg.fromEnv # "-") =>
    /\ (cfg.direct = "ValueError") <=> (cfg.fromEnv = "ValueError")
    /\ envKey \in {"unset", "empty"} =>
         (cfg.direct = "ValueError" /\ cfg.fromEnv = "ValueError")

\* request i of the root-level service carried a message and was handled
\* with the agent initialized
RootServed(i) ==
  /\ req[i].pc = "done"
  /\ req[i].body.msg # Absent
  /\ req[i].outcome.kind # "uninitialized"

\* C25: on the root-level service two successive requests with the same
\* session_id both return 200 and the second one's prompt holds the first
\* one's user message followed by its reply, while the prompt of a request
\* holds no message of a request with another session_id.
C25_RootSessions ==
  \A i, j \in Slots :
    (i < j /\ RootServed(i) /\ RootServed(j)) =>
      IF NamedSession(req[i].body) = NamedSession(req[j].body)
        THEN /\ req[i].status = 200
             /\ req[j].status = 200
             /\ \E k \in 1..(Len(req[j].prompt) - 1) :
                  /\ req[j].prompt[k] =
                       [type |-> "human", content |-> req[i].body.msg]
                  /\ req[j].prompt[k + 1] =
                       [type |-> "ai", content |-> req[i].response]
        ELSE Len(req[j].prompt) <= 2

\* request i was answered 500 and no other request has used its session
Alone500(i) ==
  /\ req[i].status = 500
  /\ \A k \in Slots \ {i} : req[k].thread # req[i].thread

Alternates(h) ==
  /\ Len(h) % 2 = 0
  /\ \A k \in 1..Len(h) :
       h[k].role = (IF k % 2 = 1 THEN "user" ELSE "assistant")

\* every request that used thread t has returned 200
Settled(t) ==
  /\ Running(t) = {}
  /\ \A i \in Slots : req[i].thread = t => req[i].status = 200

\* C28: every stored history has even length, holds only user and assistant
\* messages, starts with a user message and strictly alternates, after any
\* interleaving of chat requests. Stated here in the reading most favourable
\* to the claim: only for a session none of whose requests is under way or
\* has failed.
C28_Alternating ==
  \A t \in AllThreads : Settled(t) => Alternates(store[t])

\* g holds h as its first Len(h) messages
IsPrefix(h, g) ==
  /\ Len(h) <= Len(g)
  /\ \A k \in 1..Len(h) : g[k] = h[k]

\* C29: while the agent lives a session's history is append-only: every step
\* leaves the history of every session a prefix of what it becomes, and a
\* request that returns 200 leaves its session's history longer by exactly
\* its user message and its assistant message than the history it read.
C29_AppendOnly ==
  [][(phase = "started" /\ phase' = "started") =>
       /\ \A t \in AllThreads : IsPrefix(store[t], store'[t])
       /\ \A i \in Slots :
            (req[i].status # 200 /\ req[i]'.status = 200) =>
              store'[req[i].thread] =
                req[i].hist0
                \o << [role |-> "user", content |-> req[i].body.msg],
                      [role |-> "assistant",
                       content |-> req[i]'.response] >>]_vars

====
